---- MODULE Spec2Model ----
(***************************************************************************)
(* A model of Teamwork/easytpl (src/easytpl.go, lines 1-275).              *)
(*                                                                         *)
(* A Go string is a sequence of bytes.  An ASCII byte is written as the    *)
(* one-character string holding it; a byte >= 0x80 is written "xHH".       *)
(* The model's alphabet has no newline, so the regular expressions' "."    *)
(* matches every byte of it.                                               *)
(***************************************************************************)
EXTENDS Naturals, Integers, Sequences, FiniteSets, TLC

VARIABLES
    op,        \* the public operation called: Text, HTML, HTMLSafe, TestSafe
    tmpl,      \* the structure the input text was built from (ghost)
    input,     \* the body argument of the call
    keys,      \* the keys argument: namespace -> capability
    store,     \* the caller-owned maps the capabilities' TemplateKeys return
    pc,        \* position in the call
    mode,      \* engine of the current attempt: "html" or "text"
    attempt,   \* 1 for the first attempt, 2 for the raw attempt after a failure
    body,      \* the local variable body (after prepareTemplateTags)
    usedVars,  \* the Variable Index
    params,    \* the Parameter Tree under construction
    todo,      \* namespaces the range loop over keys has not visited yet
    cur,       \* the namespace and the used keys left of the current iteration
    calls,     \* history of capability invocations of this call
    out,       \* returned text
    err        \* returned error

vars == <<op, tmpl, input, keys, store, pc, mode, attempt, body, usedVars,
          params, todo, cur, calls, out, err>>

-----------------------------------------------------------------------------
(* Bytes and strings *)

LowerLetters == <<"a","b","c","d","e","f","g","h","i","j","k","l","m",
                  "n","o","p","q","r","s","t","u","v","w","x","y","z">>
UpperLetters == <<"A","B","C","D","E","F","G","H","I","J","K","L","M",
                  "N","O","P","Q","R","S","T","U","V","W","X","Y","Z">>

\* Bytes >= 0x80 of the alphabet: U+00E9 is C3 A9, U+00C9 is C3 89, and
\* utf8.RuneError (U+FFFD) is EF BF BD.
NonASCII == {"xC3", "xA9", "x89", "xEF", "xBF", "xBD"}
RuneError == <<"xEF", "xBF", "xBD">>

IsLowerByte(c) == \E i \in 1..26 : LowerLetters[i] = c
IsUpperByte(c) == \E i \in 1..26 : UpperLetters[i] = c
UpperByte(c) == IF IsLowerByte(c)
                THEN UpperLetters[CHOOSE i \in 1..26 : LowerLetters[i] = c]
                ELSE c
LowerByte(c) == IF IsUpperByte(c)
                THEN LowerLetters[CHOOSE i \in 1..26 : UpperLetters[i] = c]
                ELSE c

Drop(s, n) == SubSeq(s, n + 1, Len(s))
Take(s, n) == SubSeq(s, 1, n)

\* unicode.ToUpper / unicode.ToLower on the one two-byte rune of the alphabet.
IsCont(c) == c \in {"xA9", "x89"}

\* strings.ToUpper: ASCII letters are mapped; a valid multi-byte rune is mapped
\* by unicode.ToUpper; a byte that is no valid UTF-8 becomes utf8.RuneError.
RECURSIVE ToUpper(_)
ToUpper(s) ==
    IF s = <<>> THEN <<>>
    ELSE IF Head(s) \notin NonASCII THEN <<UpperByte(Head(s))>> \o ToUpper(Tail(s))
    ELSE IF Head(s) = "xC3" /\ Len(s) >= 2 /\ IsCont(s[2])
         THEN <<"xC3", "x89">> \o ToUpper(Drop(s, 2))
    ELSE RuneError \o ToUpper(Tail(s))

RECURSIVE ToLower(_)
ToLower(s) ==
    IF s = <<>> THEN <<>>
    ELSE IF Head(s) \notin NonASCII THEN <<LowerByte(Head(s))>> \o ToLower(Tail(s))
    ELSE IF Head(s) = "xC3" /\ Len(s) >= 2 /\ IsCont(s[2])
         THEN <<"xC3", "xA9">> \o ToLower(Drop(s, 2))
    ELSE RuneError \o ToLower(Tail(s))

\* p occurs in s at index i (1-based), byte for byte.
HasAt(s, i, p) ==
    /\ i >= 1
    /\ i + Len(p) - 1 <= Len(s)
    /\ \A k \in 1..Len(p) : s[i + k - 1] = p[k]

\* The same under the (?i) flag.
HasAtFold(s, i, p) ==
    /\ i >= 1
    /\ i + Len(p) - 1 <= Len(s)
    /\ \A k \in 1..Len(p) : LowerByte(s[i + k - 1]) = LowerByte(p[k])

\* strings.Contains
Contains(s, p) == \E i \in 1..(Len(s) + 1) : HasAt(s, i, p)

IsSpace(c) == c = " "

\* strings.TrimSpace
RECURSIVE TrimLeft(_)
TrimLeft(s) == IF s # <<>> /\ IsSpace(Head(s)) THEN TrimLeft(Tail(s)) ELSE s
RECURSIVE TrimRight(_)
TrimRight(s) == IF s # <<>> /\ IsSpace(s[Len(s)])
                THEN TrimRight(Take(s, Len(s) - 1)) ELSE s
TrimSpace(s) == TrimRight(TrimLeft(s))

\* strings.Split(s, sep) for a one-byte separator: always at least one part.
RECURSIVE Split(_, _)
Split(s, sep) ==
    IF \E i \in 1..Len(s) : s[i] = sep
    THEN LET i == CHOOSE i \in 1..Len(s) :
                     s[i] = sep /\ \A j \in 1..(i - 1) : s[j] # sep
         IN <<Take(s, i - 1)>> \o Split(Drop(s, i), sep)
    ELSE <<s>>

\* strings.SplitN(s, sep, 2)
SplitN2(s, sep) ==
    IF \E i \in 1..Len(s) : s[i] = sep
    THEN LET i == CHOOSE i \in 1..Len(s) :
                     s[i] = sep /\ \A j \in 1..(i - 1) : s[j] # sep
         IN <<Take(s, i - 1), Drop(s, i)>>
    ELSE <<s>>

\* sliceutil.InStringSlice
InStringSlice(list, x) == \E i \in 1..Len(list) : list[i] = x

-----------------------------------------------------------------------------------------------------------------------------------------------------
(* The Pattern Set *)

OpenLit  == <<"{", "%">>
OpenEnc  == <<"%", "7", "B", "%", "2", "5">>
CloseLit == <<"%", "}">>
CloseEnc == <<"%", "2", "5", "%", "7", "D">>
GoOpen   == <<"{", "{">>
GoClose  == <<"}", "}">>
Quote    == "\""
Backslash == "\\"

Min(S) == CHOOSE x \in S : \A y \in S : x <= y
Max(S) == CHOOSE x \in S : \A y \in S : y <= x

\* Length of the alternative of (\{\%|\%7B\%25) that matches at i, or 0.
OpenLen(s, i) == IF HasAtFold(s, i, OpenLit) THEN 2
                 ELSE IF HasAtFold(s, i, OpenEnc) THEN 6 ELSE 0
\* Length of the alternative of (\%\}|\%25\%7D) that matches at i, or 0.
CloseLen(s, i) == IF HasAtFold(s, i, CloseLit) THEN 2
                  ELSE IF HasAtFold(s, i, CloseEnc) THEN 6 ELSE 0

\* The two groups' lengths at every index of s, computed once per string.
OpenLens(s) == [i \in 1..Len(s) |-> OpenLen(s, i)]
CloseLens(s) == [i \in 1..Len(s) |-> CloseLen(s, i)]

\* The indexes after 1, 2, ... repetitions of the open group from i (greedy +).
RECURSIVE OpenEnds(_, _)
OpenEnds(ol, i) == IF i > Len(ol) \/ ol[i] = 0 THEN <<>>
                   ELSE <<i + ol[i]>> \o OpenEnds(ol, i + ol[i])
\* The index after the longest run of close groups from i (greedy +).
RECURSIVE CloseEnd(_, _)
CloseEnd(cl, i) == IF i > Len(cl) \/ cl[i] = 0 THEN i ELSE CloseEnd(cl, i + cl[i])

\* First index >= i at which a close group matches, or 0: the end of (.*?).
FirstClose(cl, i) ==
    LET S == {j \in i..Len(cl) : cl[j] > 0}
    IN IF S = {} THEN 0 ELSE Min(S)

NoMatch == [ok |-> FALSE, cstart |-> 0, cend |-> 0, end |-> 0]

\* The match whose content starts at cs and ends before the close group at c.
MatchRecord(cl, cs, c) == [ok |-> TRUE, cstart |-> cs, cend |-> c, end |-> CloseEnd(cl, c)]

\* Where the content starts: after the longest run of open groups that a close
\* group still follows (the open group backtracks when none does), or 0.
ContentStart(cl, ends) ==
    LET good == {k \in 1..Len(ends) : FirstClose(cl, ends[k]) > 0}
    IN IF good = {} THEN 0 ELSE ends[Max(good)]

MatchFromContent(cl, cs) ==
    IF cs = 0 THEN NoMatch ELSE MatchRecord(cl, cs, FirstClose(cl, cs))

\* (\{\%|\%7B\%25)+(.*?)(\%\}|\%25\%7D)+ anchored at i: the open group as often
\* as possible, then the shortest content, then the close group as often as
\* possible.  Content is s[cstart..cend-1]; the match ends before end.
tagsToGoFrom(ol, cl, i) == MatchFromContent(cl, ContentStart(cl, OpenEnds(ol, i)))

\* tagsToGo anchored at i: \\? takes the backslash at i, and the groups follow.
tagsToGoAt(s, ol, cl, i) == tagsToGoFrom(ol, cl, IF s[i] = Backslash THEN i + 1 ELSE i)

FoundAt(s, ol, cl, i) == [ok |-> TRUE, start |-> i, m |-> tagsToGoAt(s, ol, cl, i)]
NotFound == [ok |-> FALSE, start |-> 0, m |-> NoMatch]

FindAmong(s, ol, cl, starts) ==
    IF starts = {} THEN NotFound ELSE FoundAt(s, ol, cl, Min(starts))

\* Leftmost match of tagsToGo in s at or after from: [ok, start, m].
tagsToGoFind(s, ol, cl, from) ==
    FindAmong(s, ol, cl, {i \in from..Len(s) : tagsToGoAt(s, ol, cl, i).ok})

\* Leftmost match of escapeGo, \{\{.*?\}\}, at or after from: its start (or 0)
\* and, for a start, the index after its end.
escapeGoStart(s, from) ==
    LET S == {i \in from..Len(s) :
                 HasAt(s, i, GoOpen) /\ \E j \in (i + 2)..Len(s) : HasAt(s, j, GoClose)}
    IN IF S = {} THEN 0 ELSE Min(S)
escapeGoEnd(s, i) == Min({j \in (i + 2)..Len(s) : HasAt(s, j, GoClose)}) + 2

\* (?i)\s*(fallback)\s*= anchored at i: the index after the match, or 0.
FallbackWord == <<"f", "a", "l", "l", "b", "a", "c", "k">>
RECURSIVE SkipSpaces(_, _)
SkipSpaces(s, i) == IF i <= Len(s) /\ IsSpace(s[i]) THEN SkipSpaces(s, i + 1) ELSE i
EqualsAt(s, e) == IF e <= Len(s) /\ s[e] = "=" THEN e + 1 ELSE 0
WordAt(s, w) == IF HasAtFold(s, w, FallbackWord) THEN EqualsAt(s, SkipSpaces(s, w + 8)) ELSE 0
findFallbackAt(s, i) == WordAt(s, SkipSpaces(s, i))

\* findFallback.ReplaceAllString(s, "") from index i on.
RECURSIVE findFallbackReplaceAll(_, _)
SkipOrKeep(s, i, e) ==
    IF e > 0 THEN findFallbackReplaceAll(s, e)
    ELSE <<s[i]>> \o findFallbackReplaceAll(s, i + 1)
findFallbackReplaceAll(s, i) ==
    IF i > Len(s) THEN <<>> ELSE SkipOrKeep(s, i, findFallbackAt(s, i))

-----------------------------------------------------------------------------
(* The Fallback Expander and the Tag Scanner *)

IfOpen  == <<"{", "{", "i", "f", " ">>
ElseTag == <<"{", "{", "e", "l", "s", "e", "}", "}">>
EndTag  == <<"{", "{", "e", "n", "d", "}", "}">>

\* fmt.Sprintf("{{if %s}}{{%s}}{{else}}%s{{end}}", variable, variable, fallback)
Triple(variable, fallback) ==
    IfOpen \o variable \o GoClose \o GoOpen \o variable \o GoClose
    \o ElseTag \o fallback \o EndTag

ExpandParts(tag, parts) ==
    IF Len(parts) # 2 THEN tag
    ELSE Triple(TrimSpace(parts[1]), TrimSpace(findFallbackReplaceAll(parts[2], 1)))

replaceTemplateFallback(tag) ==
    IF ~Contains(ToLower(tag), FallbackWord) THEN tag
    ELSE ExpandParts(tag, SplitN2(SubSeq(tag, 3, Len(tag) - 2), ","))

\* The callback of escapeGo.ReplaceAllStringFunc.
escapeGoCallback(match) ==
    IF Contains(match, <<Quote>>) THEN match
    ELSE <<"{", "{", " ", Quote>> \o match \o <<Quote, " ", "}", "}">>

\* First pass of prepareTemplateTags: escapeGo.ReplaceAllStringFunc from from on.
RECURSIVE escapeGoReplaceAll(_, _)
EscapeSpan(s, from, i, e) ==
    SubSeq(s, from, i - 1) \o escapeGoCallback(SubSeq(s, i, e - 1))
    \o escapeGoReplaceAll(s, e)
EscapeAt(s, from, i) ==
    IF i = 0 THEN SubSeq(s, from, Len(s)) ELSE EscapeSpan(s, from, i, escapeGoEnd(s, i))
escapeGoReplaceAll(s, from) == EscapeAt(s, from, escapeGoStart(s, from))

\* tagParts[i] = strings.ToUpper(tagParts[i][0:1]) + tagParts[i][1:]
UpperFirst(part) == ToUpper(Take(part, 1)) \o Drop(part, 1)

\* usedVars after recording key under ns, once.
HaveUsed(used, ns) == IF ns \in DOMAIN used THEN used[ns] ELSE <<>>
AddOnce(list, key) == IF InStringSlice(list, key) THEN list ELSE Append(list, key)
RecordUsed(used, ns, key) ==
    [n \in DOMAIN used \cup {ns} |->
        IF n = ns THEN AddOnce(HaveUsed(used, ns), key) ELSE used[n]]

\* The end of the callback of tagsToGo.ReplaceAllStringFunc (lines 232-240).
CallbackEmit(used, ns, key) ==
    [repl |-> replaceTemplateFallback(<<"{", "{", ".">> \o ns \o <<".">> \o key \o GoClose),
     used |-> RecordUsed(used, ns, key),
     panicked |-> FALSE]

\* Lines 219-230 without the test of len(tagParts): a tag of one segment would
\* be given an empty key.
CallbackPartsNoArity(match, used, tagParts) ==
    CallbackEmit(used, UpperFirst(tagParts[1]),
                 IF Len(tagParts) < 2 THEN <<>> ELSE UpperFirst(tagParts[2]))

\* Lines 219-230: tagParts[i][0:1] of an empty string is a slice out of
\* range, a run-time panic.
CallbackParts(match, used, tagParts) ==
    IF Len(tagParts) < 2 THEN [repl |-> match, used |-> used, panicked |-> FALSE]
    ELSE IF tagParts[1] = <<>> \/ tagParts[2] = <<>>
    THEN [repl |-> match, used |-> used, panicked |-> TRUE]
    ELSE CallbackEmit(used, UpperFirst(tagParts[1]), UpperFirst(tagParts[2]))

\* The callback without its first test (lines 210-212): an escaped tag would
\* be handled like any other.
TagCallbackNoEscape(match, content, used) ==
    CallbackParts(match, used, Split(TrimSpace(content), "."))

\* The callback of tagsToGo.ReplaceAllStringFunc on one match; content is what
\* its FindStringSubmatch captures as submatch[2]: [repl, used, panicked].
TagCallback(match, content, used) ==
    IF match[1] = Backslash
    THEN [repl |-> Drop(match, 1), used |-> used, panicked |-> FALSE]
    ELSE CallbackParts(match, used, Split(TrimSpace(content), "."))

Prepend(pre, rest) ==
    [body |-> pre \o rest.body, usedVars |-> rest.usedVars, panicked |-> rest.panicked]

\* Second pass: tagsToGo.ReplaceAllStringFunc over s from index from on,
\* usedVars going through the callbacks in match order.
RECURSIVE tagsToGoReplaceAll(_, _, _, _, _)
ReplaceWith(s, ol, cl, from, f, cb) ==
    IF cb.panicked THEN [body |-> <<>>, usedVars |-> cb.used, panicked |-> TRUE]
    ELSE Prepend(SubSeq(s, from, f.start - 1) \o cb.repl,
                 tagsToGoReplaceAll(s, ol, cl, f.m.end, cb.used))
ReplaceFound(s, ol, cl, from, used, f) ==
    IF ~f.ok THEN [body |-> SubSeq(s, from, Len(s)), usedVars |-> used, panicked |-> FALSE]
    ELSE ReplaceWith(s, ol, cl, from, f,
                     TagCallback(SubSeq(s, f.start, f.m.end - 1),
                                 SubSeq(s, f.m.cstart, f.m.cend - 1), used))
tagsToGoReplaceAll(s, ol, cl, from, used) ==
    ReplaceFound(s, ol, cl, from, used, tagsToGoFind(s, ol, cl, from))

EmptyUsed == [n \in {} |-> <<>>]

SecondPass(s) == tagsToGoReplaceAll(s, OpenLens(s), CloseLens(s), 1, EmptyUsed)

prepareTemplateTags(b) == SecondPass(escapeGoReplaceAll(b, 1))

-----------------------------------------------------------------------------
(* The underlying engine: text/template and html/template, as far as the    *)
(* directives the transpiler emits go.  An action is one of                 *)
(*   {{ "..." }}   {{.Ns.Key}}   {{if .Ns.Key}}   {{else}}   {{end}}        *)
(* and every other action the model's inputs can produce is one the engine  *)
(* refuses at Parse (an unexpected character, an undefined function).       *)

\* lexQuote: the index after the closing quote of a string opened before i,
\* or 0 when the string is unterminated.
RECURSIVE QuoteEnd(_, _)
QuoteEnd(s, i) ==
    IF i > Len(s) THEN 0
    ELSE IF s[i] = Backslash THEN (IF i + 1 > Len(s) THEN 0 ELSE QuoteEnd(s, i + 2))
    ELSE IF s[i] = Quote THEN i + 1
    ELSE QuoteEnd(s, i + 1)

\* lexInsideAction: the index of the right delimiter closing the action whose
\* content starts at i, or 0 (unclosed action, unterminated quoted string).
RECURSIVE ActionEnd(_, _)
AfterQuote(s, q) == IF q = 0 THEN 0 ELSE ActionEnd(s, q)
ActionEnd(s, i) ==
    IF i > Len(s) THEN 0
    ELSE IF HasAt(s, i, GoClose) THEN i
    ELSE IF s[i] = Quote THEN AfterQuote(s, QuoteEnd(s, i + 1))
    ELSE ActionEnd(s, i + 1)

EscapeLetters == {"a", "b", "f", "n", "r", "t", "v"}

\* strconv.Unquote of the inside of a double-quoted string: [ok, v].  \a, \b,
\* ... become the control byte, written "^a", "^b", ...; a backslash before any
\* other byte of the alphabet is a syntax error.
UnquoteCons(c, r) == [ok |-> r.ok, v |-> <<c>> \o r.v]
RECURSIVE Unquote(_)
Unquote(s) ==
    IF s = <<>> THEN [ok |-> TRUE, v |-> <<>>]
    ELSE IF Head(s) # Backslash THEN UnquoteCons(Head(s), Unquote(Tail(s)))
    ELSE IF Len(s) < 2 THEN [ok |-> FALSE, v |-> <<>>]
    ELSE IF s[2] \in EscapeLetters THEN UnquoteCons("^" \o s[2], Unquote(Drop(s, 2)))
    ELSE IF s[2] \in {Backslash, Quote} THEN UnquoteCons(s[2], Unquote(Drop(s, 2)))
    ELSE [ok |-> FALSE, v |-> <<>>]

\* An identifier of the engine: letters, digits, underscore.
RECURSIVE IsIdent(_)
IsIdent(s) ==
    IF s = <<>> THEN TRUE
    ELSE IF Head(s) = "xC3" THEN Len(s) >= 2 /\ IsCont(s[2]) /\ IsIdent(Drop(s, 2))
    ELSE /\ IsLowerByte(Head(s)) \/ IsUpperByte(Head(s)) \/ Head(s) \in {"2", "5", "7", "_"}
         /\ IsIdent(Tail(s))

\* .Ns.Key
IsNamePair(names) ==
    Len(names) = 2 /\ \A i \in 1..2 : names[i] # <<>> /\ IsIdent(names[i])
IsFieldChain(c) == Len(c) >= 1 /\ c[1] = "." /\ IsNamePair(Split(Drop(c, 1), "."))

FieldNames(c) == Split(Drop(c, 1), ".")

IfWord == <<"i", "f", " ">>

\* One action, from the text between its delimiters.
BadToken == [t |-> "bad", v |-> <<>>]
StringToken(r) == IF r.ok THEN [t |-> "string", v |-> r.v] ELSE BadToken
IfToken(c) == IF IsFieldChain(c) THEN [t |-> "if", v |-> FieldNames(c)] ELSE BadToken
\* The predefined function print with one string constant: it prints it.
PrintToken(c) ==
    IF Len(c) >= 2 /\ c[1] = Quote /\ QuoteEnd(c, 2) = Len(c) + 1
    THEN [StringToken(Unquote(SubSeq(c, 2, Len(c) - 1)))
              EXCEPT !.t = IF @ = "string" THEN "print" ELSE @]
    ELSE BadToken
ClassifyTrimmed(c) ==
    IF c = <<"e", "l", "s", "e">> THEN [t |-> "else", v |-> <<>>]
    ELSE IF c = <<"e", "n", "d">> THEN [t |-> "end", v |-> <<>>]
    ELSE IF HasAt(c, 1, IfWord) THEN IfToken(TrimSpace(Drop(c, 3)))
    ELSE IF IsFieldChain(c) THEN [t |-> "field", v |-> FieldNames(c)]
    ELSE IF Len(c) >= 2 /\ c[1] = Quote /\ QuoteEnd(c, 2) = Len(c) + 1
         THEN StringToken(Unquote(SubSeq(c, 2, Len(c) - 1)))
    ELSE IF HasAt(c, 1, <<"p", "r", "i", "n", "t", " ">>)
    THEN PrintToken(TrimSpace(Drop(c, 6)))
    ELSE BadToken
Classify(content) == ClassifyTrimmed(TrimSpace(content))

\* First index >= i where the left delimiter starts, or 0.
NextGoOpen(s, i) ==
    LET S == {j \in i..Len(s) : HasAt(s, j, GoOpen)}
    IN IF S = {} THEN 0 ELSE Min(S)

\* The lexer: text nodes and classified actions, in order.
RECURSIVE Lex(_, _)
TextBefore(s, i, j) == IF j > i THEN <<[t |-> "text", v |-> SubSeq(s, i, j - 1)]>> ELSE <<>>
LexAction(s, i, j, e) ==
    IF e = 0 THEN TextBefore(s, i, j) \o <<BadToken>>
    ELSE TextBefore(s, i, j) \o <<Classify(SubSeq(s, j + 2, e - 1))>> \o Lex(s, e + 2)
LexFrom(s, i, j) ==
    IF j = 0 THEN <<[t |-> "text", v |-> SubSeq(s, i, Len(s))]>>
    ELSE LexAction(s, i, j, ActionEnd(s, j + 2))
Lex(s, i) == IF i > Len(s) THEN <<>> ELSE LexFrom(s, i, NextGoOpen(s, i))

\* The parser's block structure: depth is a sequence of "if" / "else".
RECURSIVE WellNested(_, _, _)
WellNested(toks, i, depth) ==
    IF i > Len(toks) THEN depth = <<>>
    ELSE LET k == toks[i].t
         IN IF k = "bad" THEN FALSE
            ELSE IF k = "if" THEN WellNested(toks, i + 1, Append(depth, "if"))
            ELSE IF k = "else"
                 THEN /\ depth # <<>> /\ depth[Len(depth)] = "if"
                      /\ WellNested(toks, i + 1, [depth EXCEPT ![Len(depth)] = "else"])
            ELSE IF k = "end"
                 THEN depth # <<>> /\ WellNested(toks, i + 1, Take(depth, Len(depth) - 1))
            ELSE WellNested(toks, i + 1, depth)

\* template.New("email").Parse(body): [ok, toks]
ParseTokens(toks) == [ok |-> WellNested(toks, 1, <<>>), toks |-> toks]
Parse(b) == ParseTokens(Lex(b, 1))

\* Values of the Parameter Tree: a string or the boolean false.
StrVal(s) == [k |-> "str", v |-> s]
FalseVal == [k |-> "false", v |-> <<>>]
Absent == [k |-> "absent", v |-> <<>>]

Truthy(val) == val.k = "str" /\ val.v # <<>>

NoValue == <<"<", "n", "o", " ", "v", "a", "l", "u", "e", ">">>

\* What printing the value of a field writes, before escaping.  A missing map
\* entry prints as "<no value>" in text/template; html/template hands it to
\* its escaper as an untyped nil, which the escaper skips.
PrintVal(val, m) ==
    IF val.k = "str" THEN val.v
    ELSE IF val.k = "false" THEN <<"f", "a", "l", "s", "e">>
    ELSE IF m = "html" THEN <<>> ELSE NoValue

\* html/template's escaping of an interpolated value in text context.
RECURSIVE HTMLEscape(_)
HTMLEscape(s) ==
    IF s = <<>> THEN <<>>
    ELSE (IF Head(s) = "<" THEN <<"&", "l", "t", ";">>
          ELSE IF Head(s) = ">" THEN <<"&", "g", "t", ";">>
          ELSE IF Head(s) = Quote THEN <<"&", "#", "3", "4", ";">>
          ELSE <<Head(s)>>) \o HTMLEscape(Tail(s))

Emit(s, m) == IF m = "html" THEN HTMLEscape(s) ELSE s

NoError == [kind |-> "nil", path |-> <<>>, key |-> <<>>]
ParseError == [kind |-> "parse", path |-> <<>>, key |-> <<>>]
EscapeError == [kind |-> "escape", path |-> <<>>, key |-> <<>>]
\* text/template.ExecError: executing "email" at <.path>: map has no entry
\* for key "key"
MissingKeyError(names, key) ==
    [kind |-> "exec", path |-> names[1] \o <<".">> \o names[2], key |-> key]

\* Evaluation of .Ns.Key against data: [err, val].
EvalField(data, names, strict) ==
    IF names[1] \notin DOMAIN data
    THEN [err |-> IF strict THEN MissingKeyError(names, names[1]) ELSE NoError,
          val |-> Absent]
    ELSE IF names[2] \notin DOMAIN data[names[1]]
    THEN [err |-> IF strict THEN MissingKeyError(names, names[2]) ELSE NoError,
          val |-> Absent]
    ELSE [err |-> NoError, val |-> data[names[1]][names[2]]]

\* The walk over the parsed template.  stack holds, per open {{if}}, whether
\* the enclosing branch runs (on) and the condition (cond).
Running(stack) == \A j \in 1..Len(stack) : stack[j].run
Skipped == [run |-> FALSE, cond |-> FALSE]
Branch(b) == [run |-> b, cond |-> b]
ElseOf(fr) == [run |-> ~fr.cond, cond |-> fr.cond]

\* What one token does to the stack and the output, r being the value of its
\* field when it has one: [err, stack, acc].
StepToken(tk, stack, acc, r, m) ==
    IF tk.t = "text" THEN [err |-> NoError, stack |-> stack, acc |-> acc \o tk.v]
    ELSE IF tk.t \in {"string", "print"}
    THEN [err |-> NoError, stack |-> stack, acc |-> acc \o Emit(tk.v, m)]
    ELSE IF r.err # NoError THEN [err |-> r.err, stack |-> stack, acc |-> acc]
    ELSE IF tk.t = "field"
    THEN [err |-> NoError, stack |-> stack, acc |-> acc \o Emit(PrintVal(r.val, m), m)]
    ELSE [err |-> NoError, stack |-> Append(stack, Branch(Truthy(r.val))), acc |-> acc]

\* The same in a branch that does not run, and for {{else}} and {{end}}.
StepStructure(tk, stack, acc) ==
    [err |-> NoError,
     stack |-> IF tk.t = "if" THEN Append(stack, Skipped)
               ELSE IF tk.t = "else"
               THEN [stack EXCEPT ![Len(stack)] = ElseOf(stack[Len(stack)])]
               ELSE IF tk.t = "end" THEN Take(stack, Len(stack) - 1)
               ELSE stack,
     acc |-> acc]

NoField == [err |-> NoError, val |-> Absent]
FieldOf(tk, data, strict) ==
    IF tk.t \in {"field", "if"} THEN EvalField(data, tk.v, strict) ELSE NoField

StepOf(tk, stack, acc, data, m, strict) ==
    IF tk.t \in {"else", "end"} \/ ~Running(stack) THEN StepStructure(tk, stack, acc)
    ELSE StepToken(tk, stack, acc, FieldOf(tk, data, strict), m)

RECURSIVE Walk(_, _, _, _, _, _, _)
Continue(toks, i, st, data, m, strict) ==
    IF st.err # NoError THEN [err |-> st.err, out |-> <<>>]
    ELSE Walk(toks, i + 1, st.stack, st.acc, data, m, strict)
Walk(toks, i, stack, acc, data, m, strict) ==
    IF i > Len(toks) THEN [err |-> NoError, out |-> acc]
    ELSE Continue(toks, i, StepOf(toks[i], stack, acc, data, m, strict), data, m, strict)

\* A text node opens a tag it does not close: a "<" with a letter after it in
\* the same node, and no ">" after that.
OpensTag(v) ==
    \E i \in 1..(Len(v) - 1) :
        /\ v[i] = "<"
        /\ IsLowerByte(v[i + 1]) \/ IsUpperByte(v[i + 1])
        /\ \A j \in (i + 1)..Len(v) : v[j] # ">"
HasText(tk, c) == tk.t = "text" /\ \E j \in 1..Len(tk.v) : tk.v[j] = c

\* html/template escapes the template at its first Execute and refuses one
\* that ends in a non-text context: here, inside a tag.
EndsInTag(toks) ==
    \E k \in 1..Len(toks) :
        /\ toks[k].t = "text" /\ OpensTag(toks[k].v)
        /\ \A n \in (k + 1)..Len(toks) : ~HasText(toks[n], ">")

\* tmpl.Execute(output, params): [err, out]
Execute(toks, data, m, strict) ==
    IF m = "html" /\ EndsInTag(toks) THEN [err |-> EscapeError, out |-> <<>>]
    ELSE Walk(toks, 1, <<>>, <<>>, data, m, strict)

-----------------------------------------------------------------------------
(* Capabilities (Templateable) *)

\* A caller-owned Keys map: nil, or a mapping.
NilMap == [isnil |-> TRUE, m |-> <<>>]
MapOf(f) == [isnil |-> FALSE, m |-> f]

\* A Templateable in the manner of TestKeys: TemplateKeys returns the object's
\* own map (bulk), TemplateCallbacks answers from lazy: key -> value, and
\* setIt is false for every other key.
Cap(bulk, lazy) == [bulk |-> bulk, lazy |-> lazy]

\* value.TemplateCallbacks(ctx, v, parentKeys): [result, setIt]
TemplateCallbacks(cap, v) ==
    IF v \in DOMAIN cap.lazy THEN [result |-> StrVal(cap.lazy[v]), setIt |-> TRUE]
    ELSE [result |-> FalseVal, setIt |-> FALSE]

\* The mapping the Parameter Tree holds for ns.  A map is a reference: the
\* tree's entry for ns is the caller's map itself (ref), or the map made for a
\* nil result (own).
TreeMap(p, st, ns) == IF p[ns].ref THEN st[ns].m ELSE p[ns].own
Tree(p, st) == [ns \in DOMAIN p |-> TreeMap(p, st, ns)]

\* m with m[k] = v
MapSet(m, k, v) == [x \in DOMAIN m \cup {k} |-> IF x = k THEN v ELSE m[x]]

NoCur == [ns |-> <<>>, left |-> <<>>]

-----------------------------------------------------------------------------
(* The four public operations, step by step *)

Ops == {"Text", "HTML", "HTMLSafe", "TestSafe"}

FirstMode(o) == IF o = "Text" THEN "text" ELSE "html"
Strict == op = "TestSafe"

\* body, usedVars := prepareTemplateTags(body)
Prepared(r) ==
    IF r.panicked
    THEN /\ pc' = "panicked"
         /\ UNCHANGED <<body, usedVars>>
    ELSE /\ pc' = "parse"
         /\ body' = r.body
         /\ usedVars' = r.usedVars

Prepare ==
    /\ pc = "prepare"
    /\ Prepared(prepareTemplateTags(input))
    /\ UNCHANGED <<op, tmpl, input, keys, store, mode, attempt, params, todo, cur,
                   calls, out, err>>

\* The raw attempt after a failed first attempt: HTMLSafe calls Text(), which
\* prepares the body again; TestSafe parses the prepared body again.
SecondAttempt ==
    /\ attempt' = 2
    /\ mode' = "text"
    /\ pc' = IF op = "HTMLSafe" THEN "prepare" ELSE "parse"
    /\ params' = <<>>
    /\ todo' = {}
    /\ cur' = NoCur
    /\ UNCHANGED <<out, err>>

\* A return that handed back the argument of the call with an error.
ReturnInput(text, e) ==
    /\ pc' = "done"
    /\ out' = IF e = NoError THEN text ELSE input
    /\ err' = e
    /\ UNCHANGED <<mode, attempt, params, todo, cur>>

Return(text, e) ==
    /\ pc' = "done"
    /\ out' = text
    /\ err' = e
    /\ UNCHANGED <<mode, attempt, params, todo, cur>>

\* TestSafe without its Error Translator.
TranslateErrorNone(e) == e

\* The Error Translator of TestSafe (lines 113-128).
TranslateError(e) ==
    IF e.kind # "exec" THEN e
    ELSE [kind |-> "unknown", path |-> e.path, key |-> e.key]

\* tmpl, err := template.New("email").Parse(body) and what each operation does
\* with a parse error.
ParseStep ==
    /\ pc = "parse"
    /\ IF Parse(body).ok
       THEN /\ pc' = "range"
            /\ params' = <<>>
            /\ todo' = DOMAIN keys
            /\ cur' = NoCur
            /\ UNCHANGED <<mode, attempt, out, err>>
       ELSE IF op = "TestSafe" THEN Return(<<>>, ParseError)
       ELSE IF op = "HTMLSafe" /\ attempt = 1 THEN SecondAttempt
       ELSE Return(body, ParseError)
    /\ UNCHANGED <<op, tmpl, input, keys, store, body, usedVars, calls>>

\* One iteration of "for key, value := range keys" up to the inner loop:
\* params[key] = value.TemplateKeys(ctx, parentKeys), a fresh map when nil.
TemplateKeysStep ==
    /\ pc = "range"
    /\ cur.left = <<>>
    /\ \E ns \in todo :
          /\ todo' = todo \ {ns}
          /\ calls' = Append(calls, [fn |-> "TemplateKeys", ns |-> ns, key |-> <<>>,
                                     attempt |-> attempt, ret |-> store[ns]])
          /\ params' = MapSet(params, ns,
                              IF store[ns].isnil THEN [ref |-> FALSE, own |-> <<>>]
                              ELSE [ref |-> TRUE, own |-> <<>>])
          /\ cur' = [ns |-> ns,
                     left |-> IF ns \in DOMAIN usedVars THEN usedVars[ns] ELSE <<>>]
    /\ UNCHANGED <<op, tmpl, input, keys, store, pc, mode, attempt, body, usedVars,
                   out, err>>

\* The assignment of line 173 if it kept an entry the map already has: a bulk
\* value would win over the lazy one.
AssignedKeepBulk(m, v, r) ==
    IF r.setIt /\ v \notin DOMAIN m THEN MapSet(m, v, r.result) ELSE m

\* if result, setIt := ...; setIt { params[key][v] = result }: the map after.
Assigned(m, v, r) == IF r.setIt THEN MapSet(m, v, r.result) ELSE m

\* The write goes to the map params[ns] refers to.
AssignIn(ns, v, r) ==
    IF params[ns].ref
    THEN /\ store' = [store EXCEPT ![ns] = MapOf(Assigned(@.m, v, r))]
         /\ UNCHANGED params
    ELSE /\ params' = [params EXCEPT ![ns].own = Assigned(@, v, r)]
         /\ UNCHANGED store

\* One iteration of "for _, v := range used": value.TemplateCallbacks(ctx, v,
\* parentKeys), and params[key][v] = result when setIt.
TemplateCallbacksStep ==
    /\ pc = "range"
    /\ cur.left # <<>>
    /\ calls' = Append(calls, [fn |-> "TemplateCallbacks", ns |-> cur.ns,
                               key |-> Head(cur.left), attempt |-> attempt,
                               ret |-> NilMap])
    /\ AssignIn(cur.ns, Head(cur.left), TemplateCallbacks(keys[cur.ns], Head(cur.left)))
    /\ cur' = [cur EXCEPT !.left = Tail(@)]
    /\ UNCHANGED <<op, tmpl, input, keys, pc, mode, attempt, body, usedVars, todo,
                   out, err>>

ReadyToExecute == pc = "range" /\ todo = {} /\ cur.left = <<>>

\* What follows Execute if no operation made a second attempt.
ExecutedNoRetry(r) ==
    IF r.err = NoError THEN Return(r.out, NoError) ELSE Return(body, r.err)

\* err := tmpl.Execute(output, params), the return of replaceVariables, and
\* what each operation does with it.
Executed(r) ==
    IF r.err = NoError THEN Return(r.out, NoError)
    ELSE IF op \in {"HTMLSafe", "TestSafe"} /\ attempt = 1 THEN SecondAttempt
    ELSE IF op = "TestSafe"
    THEN Return(IF r.err.kind = "exec" THEN <<>> ELSE body, TranslateError(r.err))
    ELSE Return(body, r.err)

ExecuteStep ==
    /\ ReadyToExecute
    /\ Executed(Execute(Lex(body, 1), Tree(params, store), mode, Strict))
    /\ UNCHANGED <<op, tmpl, input, keys, store, body, usedVars, calls>>

-----------------------------------------------------------------------------
(* Inputs.  A template is built from items: plain text, text in the engine's *)
(* native directive syntax, and tags; tmpl keeps the items, input is their   *)
(* concatenation.                                                            *)

MaxSegs == 2         \* dot-separated segments of a tag of the tag family
MaxText == 3         \* pieces of a fallback text of the fallback family
MaxClauses == 2      \* comma clauses of a tag of the clause family
MaxItems == 3        \* items of a template of the scan family
MaxRenderItems == 2  \* items of a template that is rendered

RECURSIVE Concat(_)
Concat(ss) == IF ss = <<>> THEN <<>> ELSE Head(ss) \o Concat(Tail(ss))

RECURSIVE Join(_, _)
Join(ss, sep) == IF ss = <<>> THEN <<>>
                 ELSE IF Len(ss) = 1 THEN ss[1]
                 ELSE ss[1] \o sep \o Join(Tail(ss), sep)

SeqUpTo(S, n) == UNION {[1..k -> S] : k \in 0..n}

TextItem(t) == [kind |-> "text", esc |-> FALSE, open |-> <<>>, w1 |-> <<>>,
                segs |-> <<>>, clauses |-> <<>>, w2 |-> <<>>, close |-> <<>>, s |-> t]
GoItem(t) == [kind |-> "go", esc |-> FALSE, open |-> <<>>, w1 |-> <<>>,
              segs |-> <<>>, clauses |-> <<>>, w2 |-> <<>>, close |-> <<>>, s |-> t]
TagItem(e, o, a, sg, cl, b, c) ==
    [kind |-> "tag", esc |-> e, open |-> o, w1 |-> a, segs |-> sg, clauses |-> cl,
     w2 |-> b, close |-> c, s |-> <<>>]
\* A comma clause: a fallback clause has its marker ("fallback=", with the
\* optional whitespace) and its text; any other clause has no marker.
Clause(mk, t) == [marker |-> mk, text |-> t]

RECURSIVE ClausesText(_)
ClausesText(cl) == IF cl = <<>> THEN <<>>
                   ELSE <<",">> \o Head(cl).marker \o Head(cl).text \o ClausesText(Tail(cl))

TagContent(it) == it.w1 \o Join(it.segs, <<".">>) \o ClausesText(it.clauses) \o it.w2
\* The tag itself, without the escaping backslash.
TagText(it) == it.open \o TagContent(it) \o it.close
ItemText(it) == IF it.kind = "tag"
                THEN (IF it.esc THEN <<Backslash>> ELSE <<>>) \o TagText(it)
                ELSE it.s

RECURSIVE Flatten(_)
Flatten(t) == IF t = <<>> THEN <<>> ELSE ItemText(Head(t)) \o Flatten(Tail(t))

Sp == <<" ">>
Spaces == {<<>>, Sp}
OpenEncLower == <<"%", "7", "b", "%", "2", "5">>
CloseEncLower == <<"%", "2", "5", "%", "7", "d">>
Opens == {OpenLit, OpenEnc, OpenEncLower}
Closes == {CloseLit, CloseEnc, CloseEncLower}


Idents == {<<"a">>, <<"B", "c">>, <<"xC3", "xA9", "a">>}
SegSet == Idents \cup {<<>>}

MarkerPlain == FallbackWord \o <<"=">>
MarkerSpaced == Sp \o FallbackWord \o Sp \o <<"=">> \o Sp
MarkerUpper == <<"F", "A", "L", "L", "B", "A", "C", "K", "=">>
Markers == {MarkerPlain, MarkerSpaced, MarkerUpper}

TextPieces == {<<"x">>, Sp, <<".">>, <<",">>, <<"=">>, <<"xC3", "xA9">>, MarkerPlain}
FallbackTexts == {Concat(ps) : ps \in SeqUpTo(TextPieces, MaxText)}

\* The tag family: one unescaped tag, every delimiter, whitespace around the
\* content, up to MaxSegs segments, no comma clause.
TagFamily ==
    {<<TagItem(FALSE, o, a, sg, <<>>, b, c)>> :
        o \in Opens, c \in Closes, a \in Spaces, b \in Spaces,
        sg \in SeqUpTo(SegSet, MaxSegs)}

\* The fallback family: one tag a.b with one fallback clause.
FallbackFamily ==
    {<<TagItem(FALSE, OpenLit, <<>>, <<<<"a">>, <<"b">>>>, <<Clause(mk, t)>>, b, CloseLit)>> :
        mk \in Markers, t \in FallbackTexts, b \in Spaces}

\* The clause family: one tag a.b with up to MaxClauses comma clauses.
ClauseSet == {Clause(<<>>, <<"c">>), Clause(MarkerPlain, <<"x">>)}
ClauseFamily ==
    {<<TagItem(FALSE, OpenLit, <<>>, <<<<"a">>, <<"b">>>>, cl, <<>>, CloseLit)>> :
        cl \in SeqUpTo(ClauseSet, MaxClauses)}

PlainTag(e, a, sg, b) == TagItem(e, OpenLit, a, sg, <<>>, b, CloseLit)
FallbackTag(sg, mk, t) == TagItem(FALSE, OpenLit, <<>>, sg, <<Clause(mk, t)>>, <<>>, CloseLit)

GoFoo == <<"{", "{", " ", "a", " ", "}", "}">>
GoBackslash == <<"{", "{", " ", Backslash, " ", "}", "}">>
GoWrapped == <<"{", "{", " ", Quote>> \o GoFoo \o <<Quote, " ", "}", "}">>

\* The scan family: up to MaxItems items in a row.
ScanItems ==
    { TextItem(<<"H", "i", " ">>),
      PlainTag(FALSE, <<>>, <<<<"a">>, <<"b">>>>, <<>>),
      PlainTag(FALSE, Sp, <<<<"c">>, <<"d">>>>, Sp),
      PlainTag(FALSE, <<>>, <<<<"a">>, <<"d">>>>, <<>>),
      PlainTag(TRUE, <<>>, <<<<"a">>, <<"b">>>>, <<>>),
      PlainTag(TRUE, Sp, <<<<"c">>, <<"b">>>>, <<>>),
      PlainTag(TRUE, <<>>, <<<<"w">>>>, <<>>),
      TagItem(TRUE, OpenEnc, <<>>, <<<<"a">>, <<"b">>>>, <<>>, <<>>, CloseEnc),
      PlainTag(FALSE, <<>>, <<<<"w">>>>, <<>>),
      FallbackTag(<<<<"a">>, <<"b">>>>, MarkerPlain, <<"x">>),
      GoItem(GoFoo),
      GoItem(GoWrapped) }
ScanFamily == SeqUpTo(ScanItems, MaxItems)

\* Templates that are rendered.
RenderItems ==
    { TextItem(<<"H", "i", " ">>),
      TextItem(<<"<", "b">>),
      PlainTag(FALSE, <<>>, <<<<"a">>, <<"b">>>>, <<>>),
      PlainTag(FALSE, Sp, <<<<"c">>, <<"d">>>>, Sp),
      PlainTag(TRUE, <<>>, <<<<"a">>, <<"b">>>>, <<>>),
      FallbackTag(<<<<"a">>, <<"b">>>>, MarkerPlain, <<"x", " ", "y">>),
      FallbackTag(<<<<"a">>, <<"d">>>>, MarkerSpaced, <<"x", ".", "y">>),
      PlainTag(FALSE, <<>>, <<<<"w">>>>, <<>>),
      PlainTag(FALSE, Sp, <<<<"w">>>>, Sp),
      TagItem(FALSE, OpenLit, Sp, <<<<"B", "c">>>>, <<Clause(MarkerPlain, <<"x">>), Clause(<<>>, <<"c">>)>>,
              Sp, CloseLit),
      PlainTag(FALSE, <<>>, <<<<>>, <<"a">>>>, <<>>),
      TagItem(FALSE, OpenLit, <<>>, <<<<"a">>, <<"b">>>>, <<Clause(<<>>, <<"c">>)>>, <<>>, CloseLit),
      GoItem(GoFoo),
      GoItem(GoBackslash) }
RenderFamily == SeqUpTo(RenderItems, MaxRenderItems)

EmptyMap == [k \in {} |-> FalseVal]
KeysSets ==
    { EmptyMap,
      (<<"A">> :> Cap(MapOf(<<"B">> :> StrVal(<<"v">>)), EmptyMap)),
      (<<"A">> :> Cap(MapOf((<<"B">> :> FalseVal) @@ (<<"D">> :> StrVal(<<"<", "v">>))), (<<"B">> :> <<"l">>))),
      (<<"A">> :> Cap(NilMap, (<<"B">> :> <<"l">>))),
      (<<"A">> :> Cap(MapOf(<<"B">> :> StrVal(<<>>)), (<<"D">> :> <<"l">>))),
      (<<"A">> :> Cap(MapOf(<<"B">> :> StrVal(<<"v">>)), (<<"B">> :> <<"l">>)))
        @@ (<<"C">> :> Cap(MapOf(<<"D">> :> StrVal(<<"v">>)), EmptyMap)),
      (<<"a">> :> Cap(MapOf(<<"b">> :> StrVal(<<"v">>)), EmptyMap)),
      (<<"A">> :> Cap(MapOf(<<"D">> :> StrVal(<<"v">>)), EmptyMap)) }

Idle ==
    /\ mode = FirstMode(op)
    /\ attempt = 1
    /\ pc = "prepare"
    /\ body = <<>>
    /\ usedVars = EmptyUsed
    /\ params = <<>>
    /\ todo = {}
    /\ cur = NoCur
    /\ calls = <<>>
    /\ out = <<>>
    /\ err = NoError

\* A call of one of the four operations.
Init ==
    /\ op \in Ops
    /\ tmpl \in RenderFamily
    /\ input = Flatten(tmpl)
    /\ keys \in KeysSets
    /\ store = [ns \in DOMAIN keys |-> keys[ns].bulk]
    /\ Idle

Next == Prepare \/ ParseStep \/ TemplateKeysStep \/ TemplateCallbacksStep \/ ExecuteStep

Spec == Init /\ [][Next]_vars

\* prepareTemplateTags on its own, as TestPrepareTemplateTags calls it.
\* Templates whose author wrote a directive of the engine: on its own, inside
\* the key segment of a tag and as the fallback text of a tag.
GoPrint == <<"{", "{", "p", "r", "i", "n", "t", " ", Quote, "a", Quote, "}", "}">>
DirectiveFamily ==
    SeqUpTo({ TextItem(<<"H", "i", " ">>),
              GoItem(GoPrint),
              GoItem(GoFoo),
              PlainTag(FALSE, <<>>, <<<<"a">>, <<"b">>>>, <<>>),
              PlainTag(FALSE, <<>>,
                       <<<<"a">>, <<"b", "}", "}">> \o Take(GoPrint, 11)>>, <<>>),
              FallbackTag(<<<<"a">>, <<"b">>>>, MarkerPlain, GoPrint) },
            MaxRenderItems)

InitTranspile ==
    /\ op = "Text"
    /\ tmpl \in TagFamily \cup FallbackFamily \cup ClauseFamily \cup ScanFamily
                 \cup DirectiveFamily
    /\ input = Flatten(tmpl)
    /\ keys = EmptyMap
    /\ store = <<>>
    /\ Idle

SpecTranspile == InitTranspile /\ [][Prepare]_vars

-----------------------------------------------------------------------------
(* The index-walking prepareTemplateTags (src/easytpl.go, lines 473-538) and *)
(* its tagsToGo (line 327).  Positions are 1-based: the search starts at     *)
(* from, which is matchFrom + 1.                                             *)

IsWordByte(c) == IsLowerByte(c) \/ IsUpperByte(c) \/ c \in {"2", "5", "7", "_"}

\* strings.Title: the letter that starts a word is uppercased; atStart says
\* that the previous character is a separator.
RECURSIVE Title(_, _)
Title(s, atStart) ==
    IF s = <<>> THEN <<>>
    ELSE IF Head(s) = "xC3" /\ Len(s) >= 2 /\ IsCont(s[2])
    THEN <<"xC3", IF atStart THEN "x89" ELSE s[2]>> \o Title(Drop(s, 2), FALSE)
    ELSE IF Head(s) \in NonASCII THEN RuneError \o Title(Tail(s), FALSE)
    ELSE <<IF atStart THEN UpperByte(Head(s)) ELSE Head(s)>>
         \o Title(Tail(s), ~IsWordByte(Head(s)))

\* [^(%})]
Allowed(c) == c \notin {"(", "%", "}", ")"}
\* The index after the longest run of allowed bytes from i.
RECURSIVE RunEnd(_, _)
RunEnd(s, i) == IF i <= Len(s) /\ Allowed(s[i]) THEN RunEnd(s, i + 1) ELSE i

\* (\{%)[^(%})]+(%}) anchored at i: the index after the match, or 0.
CloseAfter(s, i, e) == IF e > i + 2 /\ HasAt(s, e, CloseLit) THEN e + 2 ELSE 0
WalkMatchEnd(s, i) == IF HasAt(s, i, OpenLit) THEN CloseAfter(s, i, RunEnd(s, i + 2)) ELSE 0

WalkFoundAt(s, i) == [ok |-> TRUE, start |-> i, end |-> WalkMatchEnd(s, i)]
WalkFindAmong(s, starts) ==
    IF starts = {} THEN [ok |-> FALSE, start |-> 0, end |-> 0]
    ELSE WalkFoundAt(s, Min(starts))
\* tagsToGo.FindStringIndex(body[matchFrom:]), moved by matchFrom.
WalkFind(s, from) == WalkFindAmong(s, {i \in from..Len(s) : WalkMatchEnd(s, i) > 0})

\* One turn of the loop of lines 487-535 and the turns after it.  body[n:]
\* with n beyond the length of body is a run-time panic.
RECURSIVE WalkLoop(_, _, _)
\* Lines 520-534.
WalkEmit(b, f, from, used, tag, u) ==
    IF Len(u) <= 1 THEN WalkLoop(b, from, used)
    ELSE WalkLoop(Take(b, f.start - 1) \o replaceTemplateFallback(tag)
                      \o SubSeq(b, f.end, Len(b)),
                  from, RecordUsed(used, u[1], u[2]))
\* Lines 514-518.
WalkName(b, f, used, tagParts, tagName) ==
    WalkEmit(b, f, f.end - (Len(tagName) - Len(TrimSpace(tagName))), used,
             <<"{", "{", ".">> \o TrimSpace(tagName) \o GoClose,
             Split(tagParts[1], "."))
\* Lines 509-510.
WalkTag(b, f, used, tagParts) ==
    WalkName(b, f, used, [tagParts EXCEPT ![1] = Title(@, TRUE)],
             Join([tagParts EXCEPT ![1] = Title(@, TRUE)], <<",">>))
\* Lines 488-507.
WalkFound(b, used, f) ==
    IF ~f.ok THEN [body |-> b, usedVars |-> used, panicked |-> FALSE]
    ELSE IF f.start > 1 /\ b[f.start - 1] = Backslash
    THEN WalkLoop(Take(b, f.start - 2) \o SubSeq(b, f.start, Len(b)), f.end, used)
    ELSE WalkTag(b, f, used, Split(SubSeq(b, f.start + 2, f.end - 3), ","))
WalkLoop(b, from, used) ==
    IF from > Len(b) + 1 THEN [body |-> b, usedVars |-> used, panicked |-> TRUE]
    ELSE WalkFound(b, used, WalkFind(b, from))

prepareTemplateTagsWalk(b) == WalkLoop(escapeGoReplaceAll(b, 1), 1, EmptyUsed)

PrepareWalk ==
    /\ pc = "prepare"
    /\ Prepared(prepareTemplateTagsWalk(input))
    /\ UNCHANGED <<op, tmpl, input, keys, store, mode, attempt, params, todo, cur,
                   calls, out, err>>

\* The index-walking prepareTemplateTags on its own.
InitWalk ==
    /\ op = "Text"
    /\ tmpl \in ScanFamily \cup TagFamily
    /\ input = Flatten(tmpl)
    /\ keys = EmptyMap
    /\ store = <<>>
    /\ Idle

SpecWalk == InitWalk /\ [][PrepareWalk]_vars

-----------------------------------------------------------------------------
(* What the specification says of a template, read off the items it was      *)
(* built from.                                                               *)

\* A name with its first character uppercased and every other one unchanged.
CapFirst(name) ==
    IF name = <<>> THEN <<>>
    ELSE IF name[1] = "xC3" /\ Len(name) >= 2 /\ IsCont(name[2])
    THEN <<"xC3", "x89">> \o Drop(name, 2)
    ELSE <<UpperByte(name[1])>> \o Drop(name, 1)

Variable(ns, key) == <<".">> \o CapFirst(ns) \o <<".">> \o CapFirst(key)
Directive(ns, key) == GoOpen \o Variable(ns, key) \o GoClose
FallbackDirective(ns, key, text) ==
    IfOpen \o Variable(ns, key) \o GoClose \o Directive(ns, key)
    \o ElseTag \o text \o EndTag

IsTag(it) == it.kind = "tag"
HasPair(it) == IsTag(it) /\ Len(it.segs) = 2 /\ it.segs[1] # <<>> /\ it.segs[2] # <<>>
\* {% ns.key %}
WellFormed(it) == HasPair(it) /\ ~it.esc /\ it.clauses = <<>>
\* {% ns.key,fallback=TEXT %}
WithFallback(it) ==
    HasPair(it) /\ ~it.esc /\ Len(it.clauses) = 1 /\ it.clauses[1].marker # <<>>
\* Everything between the marker and the close delimiter, trimmed.
FallbackText(it) == TrimSpace(it.clauses[1].text \o it.w2)
\* A tag whose content has fewer than two dot-separated segments.
FewSegments(it) == IsTag(it) /\ ~it.esc /\ Len(Split(TagContent(it), ".")) < 2
\* A tag that yields no namespace and key, or carries a clause that is not a
\* single fallback clause.
Malformed(it) ==
    /\ IsTag(it) /\ ~it.esc
    /\ \/ Len(it.segs) < 2 \/ it.segs[1] = <<>> \/ it.segs[2] = <<>>
       \/ it.clauses # <<>> /\ ~(Len(it.clauses) = 1 /\ it.clauses[1].marker # <<>>)
Escaped(it) == IsTag(it) /\ it.esc
NotEscaped(it) == ~Escaped(it)
PlainText(it) == it.kind = "text" /\ \A i \in 1..Len(it.s) : it.s[i] # "<"

OneItem == Len(tmpl) = 1
Transpiled == pc \in {"parse", "range", "done"}

\* The value the Parameter Tree holds for Ns.Key.
Resolved(ns, key) ==
    LET t == Tree(params, store)
    IN IF CapFirst(ns) \in DOMAIN t /\ CapFirst(key) \in DOMAIN t[CapFirst(ns)]
       THEN t[CapFirst(ns)][CapFirst(key)] ELSE Absent

\* The Variable Index the specification describes: the normalized pairs of the
\* unescaped tags that have a namespace and a key, in first-seen order.
RECURSIVE IndexOf(_, _)
IndexOf(t, acc) ==
    IF t = <<>> THEN acc
    ELSE IndexOf(Tail(t),
                 IF WellFormed(Head(t)) \/ WithFallback(Head(t))
                 THEN RecordUsed(acc, CapFirst(Head(t).segs[1]), CapFirst(Head(t).segs[2]))
                 ELSE acc)

-----------------------------------------------------------------------------
(* The claims *)

\* C1: a well-formed unescaped tag, with either kind of delimiter and optional
\* whitespace around ns.key, becomes exactly {{.Ns.Key}}, Ns and Key being ns
\* and key with only their first character uppercased.
C1_FirstCharacterUppercased ==
    (pc # "prepare" /\ OneItem /\ WellFormed(tmpl[1]))
        => (pc = "parse" /\ body = Directive(tmpl[1].segs[1], tmpl[1].segs[2]))

\* C1: a well-formed tag whose namespace starts with a two-byte character has
\* been transpiled, to something else than {{.Ns.Key}}.
C1_Reached ==
    /\ pc = "parse" /\ OneItem /\ WellFormed(tmpl[1])
    /\ tmpl[1].segs[1][1] \in NonASCII
    /\ body # Directive(tmpl[1].segs[1], tmpl[1].segs[2])

\* C2: for a tag with a fallback clause rendered by Text, HTML or HTMLSafe,
\* the output is the trimmed fallback text when the value the Parameter Tree
\* holds for Ns.Key is falsy or absent, and the resolved value otherwise.
C2_FallbackRendered ==
    (pc = "done" /\ op # "TestSafe" /\ OneItem /\ WithFallback(tmpl[1]))
        => /\ err = NoError
           /\ out = IF Truthy(Resolved(tmpl[1].segs[1], tmpl[1].segs[2]))
                    THEN Emit(Resolved(tmpl[1].segs[1], tmpl[1].segs[2]).v, mode)
                    ELSE FallbackText(tmpl[1])

\* C2: a tag with a fallback clause has been rendered without error while its
\* value is absent, and the output is not the fallback text.
C2_Reached ==
    /\ pc = "done" /\ op = "Text" /\ OneItem /\ WithFallback(tmpl[1])
    /\ err = NoError
    /\ ~Truthy(Resolved(tmpl[1].segs[1], tmpl[1].segs[2]))
    /\ out # FallbackText(tmpl[1])

\* C3: the else-branch text the transpiler emits for a tag with a fallback
\* clause is everything between the first "fallback=" marker and the close
\* delimiter with only the surrounding whitespace removed: commas, equals
\* signs, dots, further "fallback=" and non-ASCII characters are kept.
C3_FallbackTextVerbatim ==
    (pc # "prepare" /\ OneItem /\ WithFallback(tmpl[1]))
        => /\ pc = "parse"
           /\ body = FallbackDirective(tmpl[1].segs[1], tmpl[1].segs[2],
                                       FallbackText(tmpl[1]))

\* C3: a tag whose fallback text holds a dot has been transpiled, and the
\* else-branch text is not the fallback text.
C3_Reached ==
    /\ pc = "parse" /\ OneItem /\ WithFallback(tmpl[1])
    /\ Contains(tmpl[1].clauses[1].text, <<".">>)
    /\ body # FallbackDirective(tmpl[1].segs[1], tmpl[1].segs[2], FallbackText(tmpl[1]))

\* What the transpiler is to make of the items of a template with escaped
\* tags: an escaped tag is its own text without the backslash, and every other
\* item is what the transpiler makes of it on its own.
RECURSIVE ExpectedBody(_)
ExpectedBody(t) ==
    IF t = <<>> THEN <<>>
    ELSE (IF Escaped(Head(t)) THEN TagText(Head(t))
          ELSE prepareTemplateTags(ItemText(Head(t))).body) \o ExpectedBody(Tail(t))

\* C4: a tag preceded by a backslash is never transformed: the output has the
\* tag text with that one backslash removed, the Variable Index is the one of
\* the template without its escaped tags, and the unescaped tags before and
\* after it are transformed as they are on their own.
C4_EscapedTagLiteral ==
    (pc # "prepare" /\ \E i \in 1..Len(tmpl) : Escaped(tmpl[i]))
        => /\ pc = "parse"
           /\ body = ExpectedBody(tmpl)
           /\ usedVars = prepareTemplateTags(Flatten(SelectSeq(tmpl, NotEscaped))).usedVars

\* C4: an escaped tag a.b between two unescaped tags has been transpiled, and
\* the Variable Index holds the pairs of the two and not A.B.
C4_Reached ==
    /\ pc = "parse" /\ Len(tmpl) = 3
    /\ WellFormed(tmpl[1]) /\ WellFormed(tmpl[3])
    /\ Escaped(tmpl[2]) /\ HasPair(tmpl[2])
    /\ CapFirst(tmpl[2].segs[1]) \in DOMAIN usedVars
    /\ ~InStringSlice(usedVars[CapFirst(tmpl[2].segs[1])], CapFirst(tmpl[2].segs[2]))
    /\ body = Directive(tmpl[1].segs[1], tmpl[1].segs[2]) \o TagText(tmpl[2])
              \o Directive(tmpl[3].segs[1], tmpl[3].segs[2])

\* A template of plain text and tags of fewer than two segments, with a tag.
OnlyFewSegments ==
    /\ \A i \in 1..Len(tmpl) : FewSegments(tmpl[i]) \/ PlainText(tmpl[i])
    /\ \E i \in 1..Len(tmpl) : FewSegments(tmpl[i])

C6_MalformedTagSilent ==
    (OneItem /\ Malformed(tmpl[1]))
        => /\ pc # "panicked"
           /\ Transpiled => body = input
           /\ pc = "done" => (err = NoError /\ out = input)

\* C6: a call on a tag with an empty namespace has stopped in a run-time panic.
C6_Reached ==
    /\ OneItem /\ Malformed(tmpl[1])
    /\ Len(tmpl[1].segs) = 2 /\ tmpl[1].segs[1] = <<>>
    /\ pc = "panicked"

\* C7: native directive text {{...}} without a quote is wrapped as
\* {{ "{{...}}" }}, so that Text renders it verbatim and the engine never
\* interprets it.
C7_NativeDirectiveVerbatim ==
    (OneItem /\ tmpl[1].kind = "go" /\ ~Contains(input, <<Quote>>))
        => /\ Transpiled
              => body = <<"{", "{", " ", Quote>> \o input \o <<Quote, " ", "}", "}">>
           /\ (pc = "done" /\ op = "Text") => (err = NoError /\ out = input)

\* C7: Text has returned an error of the engine's parser on native directive
\* text without a quote.
C7_Reached ==
    /\ OneItem /\ tmpl[1].kind = "go" /\ ~Contains(input, <<Quote>>)
    /\ pc = "done" /\ op = "Text" /\ err = ParseError

\* Templates whose tags are escaped, well-formed, with one fallback clause, or
\* of fewer than two segments.
Indexable ==
    \A i \in 1..Len(tmpl) :
        \/ ~IsTag(tmpl[i]) \/ Escaped(tmpl[i]) \/ WellFormed(tmpl[i])
        \/ WithFallback(tmpl[i]) \/ FewSegments(tmpl[i])

\* C8: the Variable Index holds, per normalized namespace, the normalized keys
\* of its unescaped tags, each once in first-seen order, the key segment alone
\* also for a tag with a fallback clause; TemplateCallbacks is invoked for a
\* capability N with key K if and only if an unescaped tag N.K occurs.
C8_IndexHoldsKeys ==
    (Transpiled /\ Indexable)
        => /\ usedVars = IndexOf(tmpl, EmptyUsed)
           /\ \A i \in 1..Len(calls) :
                 calls[i].fn = "TemplateCallbacks"
                     => /\ calls[i].ns \in DOMAIN IndexOf(tmpl, EmptyUsed)
                        /\ InStringSlice(IndexOf(tmpl, EmptyUsed)[calls[i].ns], calls[i].key)
           /\ ReadyToExecute
                 => \A ns \in DOMAIN keys \cap DOMAIN IndexOf(tmpl, EmptyUsed) :
                       \A k \in 1..Len(IndexOf(tmpl, EmptyUsed)[ns]) :
                           \E i \in 1..Len(calls) :
                               /\ calls[i].fn = "TemplateCallbacks"
                               /\ calls[i].ns = ns
                               /\ calls[i].key = IndexOf(tmpl, EmptyUsed)[ns][k]

\* C8: TemplateCallbacks has been invoked with a key that holds the fallback
\* clause of its tag.
C8_Reached ==
    /\ Transpiled /\ OneItem /\ WithFallback(tmpl[1])
    /\ \E i \in 1..Len(calls) :
          /\ calls[i].fn = "TemplateCallbacks"
          /\ calls[i].key # CapFirst(tmpl[1].segs[2])
          /\ Contains(calls[i].key, FallbackWord)

\* The bulk mapping base (empty when bulk-resolve returned nil), overridden for
\* every key of used that lazy-resolve finds.
Overridden(cap, used) ==
    LET base == IF cap.bulk.isnil THEN EmptyMap ELSE cap.bulk.m
        found == {used[i] : i \in 1..Len(used)} \cap DOMAIN cap.lazy
    IN [k \in DOMAIN base \cup found |->
           IF k \in found THEN StrVal(cap.lazy[k]) ELSE base[k]]

\* C9: when the tree is handed to the engine it holds, for each namespace of
\* the capabilities, the mapping of bulk-resolve (empty for nil) overridden by
\* the lazy value of every key of the Variable Index that lazy-resolve finds;
\* a namespace that is not in the capabilities is never in the tree.
C9_TreeIsBulkThenLazy ==
    /\ DOMAIN params \subseteq DOMAIN keys
    /\ ReadyToExecute
          => /\ DOMAIN params = DOMAIN keys
             /\ \A ns \in DOMAIN keys :
                   Tree(params, store)[ns]
                       = Overridden(keys[ns], HaveUsed(usedVars, ns))

\* C9: a tree is ready in which a lazy value has replaced the bulk value of a
\* key, another key keeps its bulk value, and a mapping was made for a nil one.
C9_Reached ==
    /\ ReadyToExecute
    /\ \E ns \in DOMAIN keys :
          /\ ~keys[ns].bulk.isnil
          /\ \E k \in DOMAIN keys[ns].bulk.m :
                Tree(params, store)[ns][k] # keys[ns].bulk.m[k]
          /\ \E k \in DOMAIN keys[ns].bulk.m :
                Tree(params, store)[ns][k] = keys[ns].bulk.m[k]

\* C10: during one call TemplateKeys is invoked at most once per capability
\* and TemplateCallbacks at most once per (namespace, used key), also when the
\* first attempt of HTMLSafe or TestSafe fails at execution; TemplateKeys of a
\* namespace comes before every TemplateCallbacks of it.
C10_ResolvedOncePerCall ==
    /\ \A i, j \in 1..Len(calls) :
          i < j => ~(/\ calls[i].fn = calls[j].fn
                     /\ calls[i].ns = calls[j].ns
                     /\ calls[i].key = calls[j].key)
    /\ \A j \in 1..Len(calls) :
          calls[j].fn = "TemplateCallbacks"
              => \E i \in 1..(j - 1) :
                    calls[i].fn = "TemplateKeys" /\ calls[i].ns = calls[j].ns

\* C10: HTMLSafe has returned after its raw attempt, with TemplateKeys and
\* TemplateCallbacks of one namespace and key invoked in both attempts.
C10_Reached ==
    /\ pc = "done" /\ op = "HTMLSafe" /\ attempt = 2
    /\ \E i, j \in 1..Len(calls) :
          /\ i < j /\ calls[i].fn = "TemplateCallbacks" /\ calls[j] = [calls[i] EXCEPT !.attempt = 2]
    /\ \E i, j \in 1..Len(calls) :
          /\ i < j /\ calls[i].fn = "TemplateKeys" /\ calls[i].ns = calls[j].ns
          /\ calls[j].fn = "TemplateKeys"

\* The tree the range loop builds for the prepared body.
BuiltTree == [ns \in DOMAIN keys |-> Overridden(keys[ns], HaveUsed(usedVars, ns))]

\* The outcome of the escaped attempt on the prepared body.
EscapedResult == Execute(Lex(body, 1), BuiltTree, "html", Strict)
EscapedFailsAtParse == ~Parse(body).ok
EscapedFailsAtExecute == Parse(body).ok /\ EscapedResult.err # NoError

\* The outcome of the raw attempt as the operation hands it to its caller.
RawResult ==
    IF ~Parse(body).ok THEN [err |-> ParseError, out |-> body]
    ELSE LET r == Execute(Lex(body, 1), Tree(params, store), "text", Strict)
         IN IF r.err = NoError THEN r
            ELSE IF op = "TestSafe" THEN [err |-> TranslateError(r.err), out |-> <<>>]
            ELSE [err |-> r.err, out |-> body]

Safe == op \in {"HTMLSafe", "TestSafe"}

UnknownVariable(first, ns, key) ==
    [kind |-> "unknown", path |-> CapFirst(ns) \o <<".">> \o CapFirst(key), key |-> first]

\* C12 as stated: for a well-formed tag whose namespace or key has no entry in
\* the Parameter Tree, Text, HTML and HTMLSafe render <no value> with a nil
\* error and TestSafe returns "unknown variable <Key> at <Namespace>.<Key>"
\* with an empty text; when the entry is there TestSafe returns the rendered
\* text and a nil error.
C12_MissingValue ==
    (pc = "done" /\ OneItem /\ WellFormed(tmpl[1]))
        => IF Resolved(tmpl[1].segs[1], tmpl[1].segs[2]) = Absent
           THEN IF op = "TestSafe"
                THEN /\ out = <<>>
                     /\ err = UnknownVariable(CapFirst(tmpl[1].segs[2]),
                                              tmpl[1].segs[1], tmpl[1].segs[2])
                ELSE err = NoError /\ out = NoValue
           ELSE op = "TestSafe"
                   => /\ err = NoError
                      /\ out = HTMLEscape(PrintVal(Resolved(tmpl[1].segs[1],
                                                            tmpl[1].segs[2]), "html"))

\* The first name of Ns.Key that has no entry: the namespace when it is not in
\* the capabilities, the key otherwise.
FirstMissing(ns, key) ==
    IF CapFirst(ns) \in DOMAIN keys THEN CapFirst(key) ELSE CapFirst(ns)

\* C12 amended: Text renders <no value>, HTML and HTMLSafe render nothing in
\* the tag's place, all three with a nil error; TestSafe returns "unknown
\* variable <M> at <Namespace>.<Key>" with an empty text, <M> being the
\* namespace when the namespace has no entry and the key otherwise; when the
\* entry is there TestSafe returns the rendered text and a nil error.
C12_MissingValueByEngine ==
    (pc = "done" /\ OneItem /\ WellFormed(tmpl[1]))
        => IF Resolved(tmpl[1].segs[1], tmpl[1].segs[2]) = Absent
           THEN IF op = "TestSafe"
                THEN /\ out = <<>>
                     /\ err = UnknownVariable(FirstMissing(tmpl[1].segs[1], tmpl[1].segs[2]),
                                              tmpl[1].segs[1], tmpl[1].segs[2])
                ELSE err = NoError /\ out = IF op = "Text" THEN NoValue ELSE <<>>
           ELSE op = "TestSafe"
                   => /\ err = NoError
                      /\ out = HTMLEscape(PrintVal(Resolved(tmpl[1].segs[1],
                                                            tmpl[1].segs[2]), "html"))

\* C12: TestSafe has reported the key of a tag whose namespace is in the
\* capabilities and whose key has no entry.
C12_Reached ==
    /\ pc = "done" /\ op = "TestSafe" /\ OneItem /\ WellFormed(tmpl[1])
    /\ CapFirst(tmpl[1].segs[1]) \in DOMAIN keys
    /\ err = UnknownVariable(CapFirst(tmpl[1].segs[2]), tmpl[1].segs[1], tmpl[1].segs[2])
    /\ out = <<>>

ScanExpected(it) ==
    IF WellFormed(it) THEN Directive(it.segs[1], it.segs[2])
    ELSE IF WithFallback(it)
    THEN FallbackDirective(it.segs[1], it.segs[2], FallbackText(it))
    ELSE IF Escaped(it) THEN TagText(it)
    ELSE ItemText(it)
RECURSIVE ExpectedScan(_)
ExpectedScan(t) ==
    IF t = <<>> THEN <<>> ELSE ScanExpected(Head(t)) \o ExpectedScan(Tail(t))

\* Several items, each a text or a tag written with {% and %}.
SeveralTags ==
    /\ Len(tmpl) >= 2
    /\ \A i \in 1..Len(tmpl) :
        /\ tmpl[i].kind # "go"
        /\ IsTag(tmpl[i]) => tmpl[i].open = OpenLit /\ tmpl[i].close = CloseLit

\* C14: the scan never mis-offsets: in a template of several tags every
\* unescaped well-formed tag is transformed exactly once whatever precedes it,
\* so the scan ends normally and the body is the items' expected texts in a
\* row: a replaced earlier tag, whitespace trimmed in an earlier tag or the
\* removed backslash of an earlier escaped tag never makes a later tag
\* skipped, started in the middle or rescanned.
C14_ScanNeverMisOffsets ==
    (pc # "prepare" /\ SeveralTags) => (pc = "parse" /\ body = ExpectedScan(tmpl))

\* C14: the index-walking scan has passed an escaped tag that is followed at
\* once by a well-formed tag.
C14_Reached ==
    /\ pc = "parse" /\ Len(tmpl) = 2
    /\ Escaped(tmpl[1]) /\ tmpl[1].open = OpenLit /\ WellFormed(tmpl[2])
    /\ body # ExpectedScan(tmpl)
\* The mapping a capability's TemplateKeys returned before the call.
Before(ns) == keys[ns].bulk

\* C15: a render call leaves the caller-owned capability state unchanged: the
\* mapping object TemplateKeys returns holds the same keys and values during
\* and after the call as before it, also when TemplateCallbacks answered
\* setIt = true for used keys, and no TemplateKeys result shows a lazy value
\* of an earlier run of the parameter loop.
C15_CallerMapUnchanged ==
    /\ \A ns \in DOMAIN keys : store[ns] = Before(ns)
    /\ \A i \in 1..Len(calls) :
          calls[i].fn = "TemplateKeys" => calls[i].ret = Before(calls[i].ns)

\* C15: a call has returned after TemplateCallbacks answered setIt = true for
\* a used key of a capability whose TemplateKeys returned a mapping.
C15_Reached ==
    /\ pc = "done"
    /\ \E i \in 1..Len(calls) :
          /\ calls[i].fn = "TemplateCallbacks"
          /\ ~Before(calls[i].ns).isnil
          /\ TemplateCallbacks(keys[calls[i].ns], calls[i].key).setIt
\* The directives of a lexed body are of the three generated shapes: a string
\* constant, a field .Ns.Key, or {{if .Ns.Key}}{{.Ns.Key}}{{else}} with texts
\* and string constants up to its {{end}}.
RECURSIVE Generated(_, _)
Generated(toks, inElse) ==
    IF toks = <<>> THEN ~inElse
    ELSE IF Head(toks).t \in {"text", "string"} THEN Generated(Tail(toks), inElse)
    ELSE IF Head(toks).t = "end" THEN inElse /\ Generated(Tail(toks), FALSE)
    ELSE IF inElse THEN FALSE
    ELSE IF Head(toks).t = "field"
    THEN Len(Head(toks).v) = 2 /\ Generated(Tail(toks), FALSE)
    ELSE IF Head(toks).t = "if"
    THEN /\ Len(toks) >= 3 /\ Len(toks[1].v) = 2
         /\ toks[2] = [t |-> "field", v |-> toks[1].v]
         /\ toks[3].t = "else"
         /\ Generated(Drop(toks, 3), TRUE)
    ELSE FALSE

\* C16: for every input text each directive of the transpiler's output that
\* the engine will interpret is one of the three shapes the transpiler
\* generates, a string-literal emission, a field access or the conditional
\* triple: no directive the author wrote, in a {{...}} that holds a quote, in
\* the segments of a tag or in a fallback clause, reaches the engine.
C16_OnlyGeneratedDirectives == pc = "parse" => Generated(Lex(body, 1), FALSE)

\* C16: the transpiler has returned a body for an input in which the author
\* wrote {{print "a"}}, and the engine runs that directive: it prints a.
C16_Reached ==
    /\ pc = "parse"
    /\ tmpl = <<GoItem(GoPrint)>>
    /\ body = GoPrint
    /\ Parse(body).ok
    /\ Execute(Lex(body, 1), <<>>, "text", FALSE) = [err |-> NoError, out |-> <<"a">>]
====
